---- MODULE Spec2Model ----
(***************************************************************************)
(* The editor session of src/editor/src/main.rs: the Editor struct, the    *)
(* arms of Editor::update, the asynchronous file tasks (load_file,         *)
(* pick_file, save_file) issued through Command::perform, and the message  *)
(* channel that brings their results back to update.                       *)
(***************************************************************************)
EXTENDS Integers, Sequences, FiniteSets, Bags, TLC

(* ------------------------------ bounds -------------------------------- *)

\* longest text (characters, newlines included) a document or a file holds
MaxLen == 1
\* most file operations outstanding at once (running tasks + undelivered results)
MaxInFlight == 2
\* most results waiting for update at once; update takes them in the order the
\* futures ended, so a future that ends while MaxInbox results wait is one that
\* ends after the first of them is taken
MaxInbox == 1

(* ------------------------------ values -------------------------------- *)

NL == "\n"
Chars == {"a"}
Paths == {"P", "Q"}
\* io::ErrorKind: what a failed read and a failed write report
ReadErrors == {"NotFound"}
WriteErrors == {"PermissionDenied"}

\* Option<T>
None == <<>>
Some(x) == <<x>>

\* enum Error
DialogClosed == [tag |-> "DialogClosed", kind |-> ""]
IOFailed(kind) == [tag |-> "IOFailed", kind |-> kind]

\* Result<T, Error>; a success carries (path, content), content empty for FileSaved
Ok(path, content) == [ok |-> TRUE, path |-> path, content |-> content, error |-> DialogClosed]
Err(error) == [ok |-> FALSE, path |-> "", content |-> <<>>, error |-> error]

\* CARGO_MANIFEST_DIR/src/main.rs
default_file == "P"

(* ----------------------------- Document ------------------------------- *)
(* text_editor::Content: the lines of the buffer and a 0-based cursor.     *)

Min(a, b) == IF a < b THEN a ELSE b

RECURSIVE SplitLines(_, _, _)
\* the lines of a text: acc holds the finished lines, cur the line being read
SplitLines(text, acc, cur) ==
    IF text = <<>> THEN Append(acc, cur)
    ELSE IF Head(text) = NL THEN SplitLines(Tail(text), Append(acc, cur), <<>>)
    ELSE SplitLines(Tail(text), acc, Append(cur, Head(text)))

RECURSIVE JoinLines(_)
JoinLines(lines) ==
    IF Len(lines) = 1 THEN lines[1]
    ELSE lines[1] \o <<NL>> \o JoinLines(Tail(lines))

ContentNew == [lines |-> << <<>> >>, cursor |-> <<0, 0>>]
ContentWith(text) == [lines |-> SplitLines(text, <<>>, <<>>), cursor |-> <<0, 0>>]
ContentText(c) == JoinLines(c.lines)
CursorPosition(c) == c.cursor

\* lines with line number i (1-based) replaced by the lines of seq
ReplaceLine(lines, i, seq) ==
    SubSeq(lines, 1, i - 1) \o seq \o SubSeq(lines, i + 1, Len(lines))

MoveCursor(c, dir) ==
    LET l == c.cursor[1]
        k == c.cursor[2]
        n == Len(c.lines)
        cur == c.lines[l + 1]
    IN CASE dir = "Left" ->
              IF k > 0 THEN <<l, k - 1>>
              ELSE IF l > 0 THEN <<l - 1, Len(c.lines[l])>>
              ELSE <<l, k>>
         [] dir = "Right" ->
              IF k < Len(cur) THEN <<l, k + 1>>
              ELSE IF l + 1 < n THEN <<l + 1, 0>>
              ELSE <<l, k>>
         [] dir = "Up" ->
              IF l > 0 THEN <<l - 1, Min(k, Len(c.lines[l]))>> ELSE <<l, k>>
         [] dir = "Down" ->
              IF l + 1 < n THEN <<l + 1, Min(k, Len(c.lines[l + 2]))>> ELSE <<l, k>>

ContentEdit(c, action) ==
    LET l == c.cursor[1]
        k == c.cursor[2]
        n == Len(c.lines)
        cur == c.lines[l + 1]
        before == SubSeq(cur, 1, k)
        after == SubSeq(cur, k + 1, Len(cur))
    IN CASE action.kind # "Edit" ->
              [c EXCEPT !.cursor = MoveCursor(c, action.op)]
         [] action.kind = "Edit" /\ action.op = "Insert" ->
              [lines |-> ReplaceLine(c.lines, l + 1, <<before \o <<action.ch>> \o after>>),
               cursor |-> <<l, k + 1>>]
         [] action.kind = "Edit" /\ action.op = "Enter" ->
              [lines |-> ReplaceLine(c.lines, l + 1, <<before, after>>),
               cursor |-> <<l + 1, 0>>]
         [] action.kind = "Edit" /\ action.op = "Backspace" ->
              IF k > 0
              THEN [lines |-> ReplaceLine(c.lines, l + 1,
                                  <<SubSeq(cur, 1, k - 1) \o after>>),
                    cursor |-> <<l, k - 1>>]
              ELSE IF l > 0
              THEN [lines |-> SubSeq(c.lines, 1, l - 1) \o <<c.lines[l] \o cur>>
                                  \o SubSeq(c.lines, l + 2, n),
                    cursor |-> <<l - 1, Len(c.lines[l])>>]
              ELSE c
         [] action.kind = "Edit" /\ action.op = "Delete" ->
              IF k < Len(cur)
              THEN [lines |-> ReplaceLine(c.lines, l + 1,
                                  <<before \o SubSeq(cur, k + 2, Len(cur))>>),
                    cursor |-> <<l, k>>]
              ELSE IF l + 1 < n
              THEN [lines |-> SubSeq(c.lines, 1, l) \o <<cur \o c.lines[l + 2]>>
                                  \o SubSeq(c.lines, l + 3, n),
                    cursor |-> <<l, k>>]
              ELSE c

\* text_editor::Action
EditActions ==
    {[kind |-> "Edit", op |-> "Insert", ch |-> ch] : ch \in Chars}
    \cup {[kind |-> "Edit", op |-> op, ch |-> ""] : op \in {"Enter", "Backspace", "Delete"}}
MotionActions ==
    {[kind |-> "Move", op |-> dir, ch |-> ""] : dir \in {"Left", "Right", "Up", "Down"}}
    \cup {[kind |-> "Select", op |-> dir, ch |-> ""] : dir \in {"Left", "Right"}}
Actions == EditActions \cup MotionActions

\* Action::is_edit
is_edit(action) == action.kind = "Edit"

\* an action that makes the text longer
Grows(action) == action.kind = "Edit" /\ action.op \in {"Insert", "Enter"}

(* ------------------------------ state --------------------------------- *)

VARIABLES
    editor,     \* struct Editor: path, content, error, is_dirty
    tasks,      \* the futures handed to Command::perform that still run (a bag)
    inbox,      \* results of finished futures, not yet passed to update
    fs,         \* the file system: the text of each path; only this program's
                \* writes change it
    unsynced,   \* history: an editing Edit or a New was processed since the last
                \* FileOpened(Ok)/FileSaved(Ok), or there was none yet
    last,       \* history: the message update processed last (of an Edit's
                \* action its kind only), NoMsg before the first
    pair        \* history: "running" once an Open or Save was issued while an
                \* earlier future still ran, "one" when update then processed a
                \* first successful result, "both" when the next message it
                \* processed was a second successful result, "none" otherwise

vars == <<editor, tasks, inbox, fs, unsynced, last, pair>>

\* enum Message, with the fields of every variant; req is the path argument
\* (an Option) of the future that produced a FileOpened/FileSaved
Msg(type, res, action, req) ==
    [type |-> type, res |-> res, action |-> action, req |-> req]
NoAction == [kind |-> "", op |-> "", ch |-> ""]
NoRes == Err(DialogClosed)
NoMsg == Msg("", NoRes, NoAction, None)

\* the futures: load_file(path), pick_file(), save_file(path, text)
LoadTask(path) == [kind |-> "load", path |-> Some(path), text |-> <<>>]
PickTask == [kind |-> "pick", path |-> None, text |-> <<>>]
SaveTask(path, text) == [kind |-> "save", path |-> path, text |-> text]

\* the files before the program starts
InitFs == [p \in Paths |-> IF p = default_file THEN <<"a">> ELSE <<NL>>]

\* Editor::new
Init ==
    /\ editor = [path |-> None, content |-> ContentNew, error |-> None, is_dirty |-> TRUE]
    /\ tasks = SetToBag({LoadTask(default_file)})
    /\ inbox = <<>>
    /\ fs = InitFs
    /\ unsynced = TRUE
    /\ last = NoMsg
    /\ pair = "none"

(* -------------------------- Editor::update ----------------------------- *)
(* One operator per arm of the match: the Editor the arm leaves behind.    *)
(* The match holds a second arm for FileOpened(Ok(..)) (lines 93-97); the  *)
(* first arm (lines 81-86) takes every such message, so the second never   *)
(* runs and is not an operation of the program.                            *)

\* mutants of the Edit arm: is_dirty assigned instead of or-ed; the error
\* cleared only by an editing action; is_dirty set by every action
UpdateEdit_DirtyAssigned(e, action) ==
    [e EXCEPT !.is_dirty = is_edit(action),
              !.error = None,
              !.content = ContentEdit(e.content, action)]

UpdateEdit_ErrorKeptOnMotion(e, action) ==
    [e EXCEPT !.is_dirty = e.is_dirty \/ is_edit(action),
              !.error = IF is_edit(action) THEN None ELSE e.error,
              !.content = ContentEdit(e.content, action)]

UpdateEdit_AlwaysDirty(e, action) ==
    [e EXCEPT !.is_dirty = TRUE,
              !.error = None,
              !.content = ContentEdit(e.content, action)]

UpdateEdit(e, action) ==
    [e EXCEPT !.is_dirty = e.is_dirty \/ is_edit(action),
              !.error = None,
              !.content = ContentEdit(e.content, action)]

\* mutant of the New arm: the path is kept
UpdateNew_KeepsPath(e) ==
    [e EXCEPT !.content = ContentNew, !.is_dirty = TRUE]

UpdateNew(e) ==
    [e EXCEPT !.path = None, !.content = ContentNew, !.is_dirty = TRUE]

\* mutant of the FileOpened(Ok) arm: the new text keeps the old cursor
UpdateFileOpenedOk_KeepsCursor(e, path, content) ==
    [e EXCEPT !.path = Some(path),
              !.content = [ContentWith(content) EXCEPT !.cursor = e.content.cursor]]

UpdateFileOpenedOk(e, path, content) ==
    [e EXCEPT !.path = Some(path), !.content = ContentWith(content)]

\* mutant of the FileSaved(Ok) arm: is_dirty is not reset
UpdateFileSavedOk_KeepsDirty(e, path) ==
    [e EXCEPT !.path = Some(path)]

\* mutant of the FileSaved(Ok) arm: the document is rebuilt from its text
UpdateFileSavedOk_Reloads(e, path) ==
    [e EXCEPT !.path = Some(path), !.is_dirty = FALSE,
              !.content = ContentWith(ContentText(e.content))]

UpdateFileSavedOk(e, path) ==
    [e EXCEPT !.path = Some(path), !.is_dirty = FALSE]

\* mutant of the FileSaved(Err) arm: an error already shown is kept
UpdateFileSavedErr_KeepsFirstError(e, error) ==
    [e EXCEPT !.error = IF e.error = None THEN Some(error) ELSE e.error]

UpdateFileSavedErr(e, error) ==
    [e EXCEPT !.error = Some(error)]

\* mutant of the FileOpened(Err) arm: the path of the document is dropped
UpdateFileOpenedErr_DropsPath(e, error) ==
    [e EXCEPT !.error = Some(error), !.path = None]

UpdateFileOpenedErr(e, error) ==
    [e EXCEPT !.error = Some(error)]

\* the future the Save arm hands to Command::perform
SaveCommand(e) == SaveTask(e.path, ContentText(e.content))

(* --------------------------- the futures ------------------------------- *)
(* handle is what the dialog returned (None: closed without a choice), io  *)
(* the outcome of the tokio::fs call ("Ok" or an io::ErrorKind).           *)

ReadOutcomes == {"Ok"} \cup ReadErrors
WriteOutcomes == {"Ok"} \cup WriteErrors
Handles == {None} \cup {Some(p) : p \in Paths}

\* mutant of load_file: a failed read is reported as a closed dialog
load_file_DialogClosed(path, io, files) ==
    IF io = "Ok" THEN Ok(path, files[path]) ELSE Err(DialogClosed)

load_file(path, io, files) ==
    IF io = "Ok" THEN Ok(path, files[path]) ELSE Err(IOFailed(io))

pick_file(handle, io, files) ==
    IF handle = None THEN Err(DialogClosed) ELSE load_file(handle[1], io, files)

\* mutant of save_file: the dialog is opened for every save
save_file_AlwaysPrompts(path, text, handle, io) ==
    LET dest == IF handle = None THEN None
                ELSE IF path # None THEN path ELSE handle
    IN IF dest = None THEN Err(DialogClosed)
       ELSE IF io # "Ok" THEN Err(IOFailed(io))
       ELSE Ok(dest[1], <<>>)

save_file(path, text, handle, io) ==
    LET dest == IF path # None THEN path ELSE handle
    IN IF dest = None THEN Err(DialogClosed)
       ELSE IF io # "Ok" THEN Err(IOFailed(io))
       ELSE Ok(dest[1], <<>>)

\* mutant of the write in save_file: the text written is read from the
\* document when the write happens, not taken from the argument
WriteFile_WritesCurrent(files, res, text) ==
    IF res.ok THEN [files EXCEPT ![res.path] = ContentText(editor.content)] ELSE files

\* the file system after save_file returned res
WriteFile(files, res, text) ==
    IF res.ok THEN [files EXCEPT ![res.path] = text] ELSE files

InFlight == BagCardinality(tasks) + Len(inbox)

(* ------------------------ the futures complete ------------------------- *)

\* mutant of the end of a future: its result is dropped
Finish_Drops(task, type, res) ==
    /\ Len(inbox) < MaxInbox
    /\ tasks' = tasks (-) SetToBag({task})
    /\ inbox' = inbox
    /\ UNCHANGED <<editor, unsynced, last, pair>>

Finish(task, type, res) ==
    /\ Len(inbox) < MaxInbox
    /\ tasks' = tasks (-) SetToBag({task})
    /\ inbox' = Append(inbox, Msg(type, res, NoAction, task.path))
    /\ UNCHANGED <<editor, unsynced, last, pair>>

\* the startup future load_file(default_file()) ends
FinishLoad(task) ==
    /\ task.kind = "load"
    /\ \E io \in ReadOutcomes :
         LET res == load_file(task.path[1], io, fs)
         IN /\ Finish(task, "FileOpened", res)
            /\ fs' = fs

\* a pick_file() future ends
FinishPick(task) ==
    /\ task.kind = "pick"
    /\ \E handle \in Handles, io \in ReadOutcomes :
         LET res == pick_file(handle, io, fs)
         IN /\ Finish(task, "FileOpened", res)
            /\ fs' = fs

\* a save_file(path, text) future ends
FinishSave(task) ==
    /\ task.kind = "save"
    /\ \E handle \in Handles, io \in WriteOutcomes :
         LET res == save_file(task.path, task.text, handle, io)
         IN /\ Finish(task, "FileSaved", res)
            /\ fs' = WriteFile(fs, res, task.text)

(* ----------------------- messages from the user ------------------------ *)

Edit(action) ==
    /\ Grows(action) => Len(ContentText(editor.content)) < MaxLen
    /\ editor' = UpdateEdit(editor, action)
    /\ unsynced' = (unsynced \/ is_edit(action))
    /\ last' = Msg("Edit", NoRes, [NoAction EXCEPT !.kind = action.kind], None)
    /\ pair' = IF pair = "running" THEN pair ELSE "none"
    /\ UNCHANGED <<tasks, inbox, fs>>

New ==
    /\ editor' = UpdateNew(editor)
    /\ unsynced' = TRUE
    /\ last' = Msg("New", NoRes, NoAction, None)
    /\ pair' = IF pair = "running" THEN pair ELSE "none"
    /\ UNCHANGED <<tasks, inbox, fs>>

Open ==
    /\ InFlight < MaxInFlight
    /\ tasks' = tasks (+) SetToBag({PickTask})
    /\ last' = Msg("Open", NoRes, NoAction, None)
    /\ pair' = IF BagCardinality(tasks) > 0 THEN "running" ELSE "none"
    /\ UNCHANGED <<editor, inbox, fs, unsynced>>

Save ==
    /\ InFlight < MaxInFlight
    /\ tasks' = tasks (+) SetToBag({SaveCommand(editor)})
    /\ last' = Msg("Save", NoRes, NoAction, None)
    /\ pair' = IF BagCardinality(tasks) > 0 THEN "running" ELSE "none"
    /\ UNCHANGED <<editor, inbox, fs, unsynced>>

\* the Save button of view: on_press is Some(Message::Save) only when is_dirty
SaveButton ==
    /\ editor.is_dirty
    /\ Save

\* subscription: the S key with the command modifier
SaveShortcut ==
    /\ TRUE
    /\ Save

(* ------------------- results delivered to update ----------------------- *)

Deliver(type, ok) ==
    /\ inbox # <<>>
    /\ Head(inbox).type = type
    /\ Head(inbox).res.ok = ok
    /\ inbox' = Tail(inbox)
    /\ last' = Head(inbox)
    /\ pair' = CASE ok /\ pair = "running" -> "one"
                 [] ok /\ pair = "one" -> "both"
                 [] OTHER -> "none"
    /\ UNCHANGED <<tasks, fs>>

FileOpenedOk ==
    /\ Deliver("FileOpened", TRUE)
    /\ editor' = UpdateFileOpenedOk(editor, Head(inbox).res.path, Head(inbox).res.content)
    /\ unsynced' = FALSE

FileOpenedErr ==
    /\ Deliver("FileOpened", FALSE)
    /\ editor' = UpdateFileOpenedErr(editor, Head(inbox).res.error)
    /\ UNCHANGED unsynced

FileSavedOk ==
    /\ Deliver("FileSaved", TRUE)
    /\ editor' = UpdateFileSavedOk(editor, Head(inbox).res.path)
    /\ unsynced' = FALSE

FileSavedErr ==
    /\ Deliver("FileSaved", FALSE)
    /\ editor' = UpdateFileSavedErr(editor, Head(inbox).res.error)
    /\ UNCHANGED unsynced

Next ==
    \/ \E action \in Actions : Edit(action)
    \/ New
    \/ Open
    \/ SaveButton
    \/ SaveShortcut
    \/ \E task \in BagToSet(tasks) : FinishLoad(task)
    \/ \E task \in BagToSet(tasks) : FinishPick(task)
    \/ \E task \in BagToSet(tasks) : FinishSave(task)
    \/ FileOpenedOk
    \/ FileOpenedErr
    \/ FileSavedOk
    \/ FileSavedErr

Spec == Init /\ [][Next]_vars

\* the steps of the file operations: the messages that start a future or
\* change the path (Open, Save, New), the futures ending and their results
\* being processed; Edit starts no future and is left to Next
FileNext ==
    \/ New
    \/ Open
    \/ SaveButton
    \/ SaveShortcut
    \/ \E task \in BagToSet(tasks) : FinishLoad(task)
    \/ \E task \in BagToSet(tasks) : FinishPick(task)
    \/ \E task \in BagToSet(tasks) : FinishSave(task)
    \/ FileOpenedOk
    \/ FileOpenedErr
    \/ FileSavedOk
    \/ FileSavedErr

\* the dialog and the file system call of every future return, and the
\* runtime hands every result to update: a future of each kind that runs ends
\* (it waits while the queue of results is at its bound) and a result that
\* waits is processed
FairSpec ==
    /\ Init /\ [][FileNext]_vars
    /\ SF_vars(\E task \in BagToSet(tasks) : FinishLoad(task))
    /\ SF_vars(\E task \in BagToSet(tasks) : FinishPick(task))
    /\ SF_vars(\E task \in BagToSet(tasks) : FinishSave(task))
    /\ WF_vars(FileOpenedOk \/ FileOpenedErr \/ FileSavedOk \/ FileSavedErr)

(* ---------------------------- Editor::view ----------------------------- *)

\* status_bar: the text of the status widget, and what it stands for
status(e) ==
    IF e.error # None /\ e.error[1].tag = "IOFailed"
    THEN [shows |-> "error", text |-> e.error[1].kind]
    ELSE IF e.path # None
    THEN [shows |-> "path", text |-> e.path[1]]
    ELSE [shows |-> "label", text |-> "New File  "]

\* position: the line and column written as "line:column"
position(e) ==
    LET cursor == CursorPosition(e.content)
    IN <<cursor[1] + 1, cursor[2] + 1>>

(* ------------------------------ claims --------------------------------- *)

Text(e) == ContentText(e.content)

\* this step passes the first waiting result, of this type and outcome, to update
Delivered(type, ok) ==
    /\ inbox # <<>>
    /\ inbox' = Tail(inbox)
    /\ Head(inbox).type = type
    /\ Head(inbox).res.ok = ok

\* this step is a future ending, not a call of update
FutureEnds == Len(inbox') = Len(inbox) + 1

\* this step is update processing a message of this type that came from the user
Processed(type) == last'.type = type /\ ~FutureEnds

\* C1: right after update processed FileOpened(Ok(path, content)), from the startup
\* load or from an Open, path = Some(path), the document text is content and
\* is_dirty = false.
C1_FileOpenedOkLoadsClean ==
    (last.type = "FileOpened" /\ last.res.ok) =>
        /\ editor.path = Some(last.res.path)
        /\ Text(editor) = last.res.content
        /\ editor.is_dirty = FALSE

\* C2: whenever is_dirty = false and path = Some(p), the document text is the
\* content this session most recently read from or wrote to p (the text of p in
\* the file system, which only this session's writes change).
C2_CleanMatchesPersisted ==
    \A p \in Paths :
        (editor.is_dirty = FALSE /\ editor.path = Some(p)) => Text(editor) = fs[p]

\* C3: is_dirty is true whenever an editing Edit or a New was processed since the
\* last FileOpened(Ok)/FileSaved(Ok), and from the start until the first of them.
C3_DirtyUntilSynced == unsynced => editor.is_dirty

C3_Witness ==
    /\ unsynced
    /\ editor.is_dirty
    /\ editor.path # None
    /\ last.type = "Edit"
    /\ last.action.kind = "Move"

\* C4: right after update processed FileSaved(Ok(path)), path = Some(path) and
\* is_dirty = false; the path is the one the Save was issued with when it had one,
\* and otherwise the one picked in the dialog.
C4_FileSavedOkCleans ==
    (last.type = "FileSaved" /\ last.res.ok) =>
        /\ editor.path = Some(last.res.path)
        /\ editor.is_dirty = FALSE
        /\ last.req # None => last.req = Some(last.res.path)

C4_Witness ==
    /\ last.type = "FileSaved"
    /\ last.res.ok
    /\ last.req = None
    /\ last.res.path = "Q"
    /\ editor.path = Some("Q")
    /\ editor.is_dirty = FALSE

\* C5: processing FileSaved(Err(e)) sets last_error = Some(e), whatever it was, and
\* leaves path, is_dirty and the document as they were.
C5_FileSavedErrOnlySetsError ==
    [][Delivered("FileSaved", FALSE) =>
          /\ editor'.error = Some(Head(inbox).res.error)
          /\ editor'.path = editor.path
          /\ editor'.is_dirty = editor.is_dirty
          /\ editor'.content = editor.content]_vars

\* a Save issued with path = None, its dialog closed: DialogClosed, path still None
C5_Witness ==
    /\ last.type = "FileSaved"
    /\ last.req = None
    /\ last.res = Err(DialogClosed)
    /\ editor.error = Some(DialogClosed)
    /\ editor.path = None
    /\ editor.is_dirty

\* C6: processing FileOpened(Err(e)) sets last_error = Some(e), whatever it was,
\* and leaves the document, path and is_dirty as they were.
C6_FileOpenedErrOnlySetsError ==
    [][Delivered("FileOpened", FALSE) =>
          /\ editor'.error = Some(Head(inbox).res.error)
          /\ editor'.path = editor.path
          /\ editor'.is_dirty = editor.is_dirty
          /\ editor'.content = editor.content]_vars

\* an Open of a file that is not found, after a file was loaded and edited
C6_Witness ==
    /\ last.type = "FileOpened"
    /\ last.res = Err(IOFailed("NotFound"))
    /\ last.req = None
    /\ editor.error = Some(IOFailed("NotFound"))
    /\ editor.path = Some("P")
    /\ Text(editor) # <<>>

\* C7: every Edit, editing or not, with or without a file operation in flight,
\* leaves last_error = None and does not change path.
C7_EditClearsError ==
    [][Processed("Edit") =>
          /\ editor'.error = None
          /\ editor'.path = editor.path]_vars

\* a cursor movement processed while a file operation is in flight
C7_Witness ==
    /\ last.type = "Edit"
    /\ last.action.kind = "Move"
    /\ editor.error = None
    /\ editor.path # None
    /\ InFlight > 0

\* C8: right after update processed FileOpened(Ok(..)), last_error = None.
C8_FileOpenedOkClearsError ==
    (last.type = "FileOpened" /\ last.res.ok) => editor.error = None

\* C9: an Edit whose action is not an edit (a cursor movement, a selection)
\* leaves is_dirty as it was.
C9_MotionKeepsDirty ==
    [][(Processed("Edit") /\ last'.action.kind # "Edit") =>
          editor'.is_dirty = editor.is_dirty]_vars

\* a selection processed on a clean document
C9_Witness ==
    /\ last.type = "Edit"
    /\ last.action.kind = "Select"
    /\ editor.is_dirty = FALSE

\* C10: New leaves an empty document, path = None and is_dirty = true, and starts
\* no future and delivers no result.
C10_NewResets ==
    [][Processed("New") =>
          /\ editor'.content = ContentNew
          /\ editor'.path = None
          /\ editor'.is_dirty
          /\ tasks' = tasks
          /\ inbox' = inbox]_vars

\* a New processed while a file operation is in flight, after a file was loaded
C10_Witness ==
    /\ last.type = "New"
    /\ editor.content = ContentNew
    /\ editor.path = None
    /\ editor.is_dirty
    /\ BagCardinality(tasks) > 0
    /\ fs # InitFs

\* a successful result of a file operation
OkResult(m) == m.type \in {"FileOpened", "FileSaved"} /\ m.res.ok

\* C11: when an Open or Save is issued while an earlier one still runs and update
\* then processes the two successful results one after the other, path, document
\* and is_dirty are what the result processed last determines: its path, its
\* content when it is a FileOpened, and is_dirty = false.
C11_LastCompletionWins ==
    pair = "both" =>
        /\ OkResult(last)
        /\ editor.path = Some(last.res.path)
        /\ last.type = "FileOpened" => Text(editor) = last.res.content
        /\ editor.is_dirty = FALSE

\* C12: no Save reaches update while is_dirty = false, from the button or from
\* the keyboard shortcut.
C12_NoSaveWhenClean == last.type = "Save" => editor.is_dirty

\* C13: the status shows the error whenever last_error is present, whichever
\* error it is; without an error it shows the path when there is one and the
\* "New File" label otherwise.
C13_StatusShowsError ==
    /\ editor.error # None => status(editor).shows = "error"
    /\ (editor.error = None /\ editor.path # None) =>
           status(editor) = [shows |-> "path", text |-> editor.path[1]]
    /\ (editor.error = None /\ editor.path = None) =>
           status(editor).shows = "label"

\* the result of the startup future load_file(default_file()): pick_file
\* futures carry no path argument and save_file futures end in a FileSaved
StartupResult(m) == m.type = "FileOpened" /\ m.req = Some(default_file)

\* the only file operation outstanding is the startup load, still running or
\* ended with its FileOpened not yet processed
OnlyStartupLoad ==
    \/ tasks = SetToBag({LoadTask(default_file)}) /\ inbox = <<>>
    \/ tasks = EmptyBag /\ Len(inbox) = 1 /\ StartupResult(inbox[1])

\* C14: startup behaves like an Open without a prompt. Until update processes
\* its first message the path is None, the document empty, the error None and
\* exactly one load of the default location is outstanding, answered by a
\* FileOpened. A failed FileOpened, of the startup load or of an Open, changes
\* the error to Some of its error and nothing else of the editor; the error of
\* a failed startup load is an IOFailed. Right after a failed startup load was
\* processed Edit, New, Open and Save can be processed.
C14_StartupLikeOpen ==
    /\ [](last = NoMsg =>
            /\ editor.path = None
            /\ editor.content = ContentNew
            /\ editor.error = None
            /\ OnlyStartupLoad)
    /\ []((StartupResult(last) /\ ~last.res.ok) =>
            /\ last.res.error.tag = "IOFailed"
            /\ editor.error = Some(last.res.error)
            /\ ENABLED (\E action \in Actions : Edit(action))
            /\ ENABLED New
            /\ ENABLED Open
            /\ ENABLED Save)
    /\ [][Delivered("FileOpened", FALSE) =>
            editor' = [editor EXCEPT !.error = Some(Head(inbox).res.error)]]_vars

\* the startup load failed after the user typed: the error is set, the path
\* is still None and the typed text is still there
C14_Witness ==
    /\ StartupResult(last) /\ ~last.res.ok
    /\ editor.error = Some(IOFailed("NotFound"))
    /\ editor.path = None
    /\ Text(editor) = <<"a">>

\* the cursor of c is a position of its buffer
InBounds(c) ==
    LET line == CursorPosition(c)[1]
        column == CursorPosition(c)[2]
    IN /\ 0 <= line /\ line < Len(c.lines)
       /\ 0 <= column /\ column <= Len(c.lines[line + 1])

\* C15: in every state, so after every Edit action, after New and after a
\* successful Open, the cursor is within the buffer (0 <= line < number of
\* lines, 0 <= column <= length of that line); right after FileOpened(Ok) it is
\* (0, 0); the position shown is the cursor plus one in line and in column.
C15_CursorInBounds ==
    /\ InBounds(editor.content)
    /\ (last.type = "FileOpened" /\ last.res.ok) =>
           CursorPosition(editor.content) = <<0, 0>>
    /\ position(editor) = <<CursorPosition(editor.content)[1] + 1,
                            CursorPosition(editor.content)[2] + 1>>

\* after Enter the cursor is at the start of the second line, shown as 2:1
C15_Witness ==
    /\ last.type = "Edit"
    /\ Len(editor.content.lines) = 2
    /\ CursorPosition(editor.content) = <<1, 0>>
    /\ position(editor) = <<2, 1>>

\* the result the future that ends in this step hands over
Answer == inbox'[Len(inbox')]

\* C16: a Save works on a snapshot. Processing Save starts one save_file
\* future that holds the path and the document text of that moment; processing
\* an Edit, a New or a result changes no future that runs. When a save_file
\* future ends, a success wrote the text it holds, to the path it holds when
\* that is Some (then it never ends with DialogClosed: no dialog decides its
\* result); the path in FileSaved(Ok) is the path written; a failure wrote
\* nothing.
C16_SaveSnapshot ==
    [][/\ Processed("Save") =>
              tasks' = tasks (+) SetToBag({SaveTask(editor.path, Text(editor))})
       /\ (~FutureEnds /\ last'.type \notin {"Save", "Open"}) => tasks' = tasks
       /\ (FutureEnds /\ Answer.type = "FileSaved") =>
              \E task \in BagToSet(tasks) :
                  /\ task.kind = "save"
                  /\ tasks' = tasks (-) SetToBag({task})
                  /\ Answer.req = task.path
                  /\ task.path # None =>
                         /\ Answer.res.ok => Answer.res.path = task.path[1]
                         /\ ~Answer.res.ok => Answer.res.error.tag = "IOFailed"
                  /\ Answer.res.ok =>
                         fs' = [fs EXCEPT ![Answer.res.path] = task.text]
                  /\ ~Answer.res.ok => fs' = fs]_vars

\* a Save of the opened file was answered after the text was deleted: the
\* file holds the text of the snapshot, the document does not
C16_Witness ==
    /\ last.type = "FileSaved" /\ last.res.ok
    /\ last.req = Some("P") /\ last.res.path = "P"
    /\ fs["P"] = <<"a">>
    /\ Text(editor) = <<>>
    /\ editor.path = Some("P")

\* C17: saving never mutates the document. Processing Save, FileSaved(Ok) or
\* FileSaved(Err) leaves the lines and the cursor of the document as they
\* were; a step that changes the document is update processing an Edit, a New
\* or a FileOpened(Ok).
C17_SaveKeepsDocument ==
    [][/\ (\/ Processed("Save")
           \/ Delivered("FileSaved", TRUE)
           \/ Delivered("FileSaved", FALSE)) => editor'.content = editor.content
       /\ editor'.content # editor.content =>
              \/ Processed("Edit")
              \/ Processed("New")
              \/ Delivered("FileOpened", TRUE)]_vars

\* a successful save was processed while the cursor stood after the text
C17_Witness ==
    /\ last.type = "FileSaved" /\ last.res.ok
    /\ Text(editor) = <<"a">>
    /\ CursorPosition(editor.content) = <<0, 1>>

\* C19: DialogClosed arises only from a cancelled prompt. A future that ends
\* with Err(DialogClosed) was given no path, so it is neither the startup load
\* nor a Save issued while path was Some, it carries no file content and it
\* left every file as it was; the error of the editor becomes DialogClosed
\* only when update processes such a result, of an Open or of a Save issued
\* with path = None.
C19_DialogClosedOnlyFromPrompt ==
    [][/\ (FutureEnds /\ Answer.res.error = DialogClosed /\ ~Answer.res.ok) =>
              /\ Answer.req = None
              /\ Answer.res.content = <<>>
              /\ fs' = fs
       /\ (editor'.error = Some(DialogClosed) /\ editor.error # Some(DialogClosed)) =>
              /\ inbox # <<>> /\ inbox' = Tail(inbox)
              /\ Head(inbox).type \in {"FileOpened", "FileSaved"}
              /\ Head(inbox).res = Err(DialogClosed)
              /\ Head(inbox).req = None]_vars

\* the save dialog of a document without a path was closed
C19_Witness ==
    /\ editor.error = Some(DialogClosed)
    /\ last.type = "FileSaved" /\ last.req = None
    /\ editor.path = None
    /\ fs = InitFs

\* the message that answers a future of this kind
AnswerType(kind) == IF kind = "save" THEN "FileSaved" ELSE "FileOpened"

\* a future of this kind runs
Running(kind) == \E task \in BagToSet(tasks) : task.kind = kind

\* m is the result of a future of this kind: save_file ends in a FileSaved,
\* load_file (the startup load) in a FileOpened with its path argument,
\* pick_file in a FileOpened without
AnswerOf(m, kind) ==
    /\ m.type = AnswerType(kind)
    /\ kind = "load" => m.req # None
    /\ kind = "pick" => m.req = None

\* the result of a future of this kind waits to be processed
Waiting(kind) == \E i \in 1..Len(inbox) : AnswerOf(inbox[i], kind)

\* this step is update processing the first result that waits
HeadProcessed == inbox # <<>> /\ inbox' = Tail(inbox) /\ last' = Head(inbox)

\* C18: every issued file operation is answered exactly once and the answer
\* is processed. Processing Open starts one pick_file future and Save one
\* save_file future and adds no result; the futures change otherwise only by
\* one of them ending, which adds exactly one result, a FileOpened for
\* load_file and pick_file and a FileSaved for save_file; results change
\* otherwise only by update processing the first of them. When every future
\* ends and every waiting result is handed to update: the result of the
\* startup load is eventually processed, a running future of each kind
\* eventually has its result waiting, and results do not wait for ever:
\* again and again no result waits or the first that waits is processed, so
\* each result, waiting in the order the futures ended, is processed,
\* whatever else is in flight.
C18_AnsweredOnce ==
    /\ [][/\ Processed("Open") =>
                 tasks' = tasks (+) SetToBag({PickTask}) /\ inbox' = inbox
          /\ Processed("Save") =>
                 /\ \E task \in BagToSet(tasks') :
                        task.kind = "save" /\ tasks' = tasks (+) SetToBag({task})
                 /\ inbox' = inbox
          /\ (tasks' # tasks /\ ~Processed("Open") /\ ~Processed("Save")) =>
                 \E task \in BagToSet(tasks) :
                     /\ tasks' = tasks (-) SetToBag({task})
                     /\ Len(inbox') = Len(inbox) + 1
                     /\ SubSeq(inbox', 1, Len(inbox)) = inbox
                     /\ Answer.type = AnswerType(task.kind)
                     /\ Answer.req = task.path
          /\ inbox' # inbox =>
                 \/ /\ BagCardinality(tasks') = BagCardinality(tasks) - 1
                    /\ Len(inbox') = Len(inbox) + 1
                 \/ /\ tasks' = tasks
                    /\ inbox # <<>> /\ inbox' = Tail(inbox)
                    /\ last' = Head(inbox)]_vars
    /\ <>(StartupResult(last))
    /\ Running("pick") ~> Waiting("pick")
    /\ Running("save") ~> Waiting("save")
    /\ []<>(inbox = <<>>) \/ []<><<HeadProcessed>>_vars

\* an Open and a Save were both in flight; the FileSaved was processed while
\* the Open still ran
C18_Witness ==
    /\ last.type = "FileSaved"
    /\ Running("pick")
    /\ inbox = <<>>

====
